---------------------------- MODULE Spec2Model ----------------------------
(* A model of the honeypot engine of src/api.ts, src/services/geminiService.ts  *)
(* and src/constants.ts: the keyword classifier (detectScam), the entity        *)
(* extractor (extractIntelligence), the reply orchestrator                      *)
(* (generateHoneypotReply, callGemini), the request handler                     *)
(* (handleHoneypotApiRequest) and the scorer (evaluateFinalOutput).             *)
(*                                                                              *)
(* A JavaScript string is a sequence of one-character strings, so that          *)
(* toLowerCase, includes, replace and the regular expressions are computed      *)
(* character by character as the runtime computes them.  A position in a text   *)
(* is 0-based as in JavaScript: position i is in front of character t[i+1].     *)
EXTENDS Integers, Sequences, FiniteSets, TLC

VARIABLES
  \* ---- one classifier session (detectScam and the flag its caller keeps)
  message,              \* text of the message of the current turn
  pcTurn,               \* "idle" | "received" | "classified"
  currentScamDetected,  \* the flag passed to the last detectScam call
  returned,             \* what the last detectScam call returned
  scamDetected          \* the session's flag: the last returned value, fed back

VARIABLES
  \* ---- one evaluation (evaluateFinalOutput)
  finalOutput,          \* the FinalOutput handed to the scorer
  scenario,             \* the Scenario handed to the scorer
  score                 \* NotEvaluated, or what evaluateFinalOutput did

VARIABLES
  \* ---- the extractor (extractIntelligence and the six module-level patterns)
  text,                 \* the message text of the current extraction
  pcExtract,            \* "idle" | "called" | "extracted"
  extracted,            \* the six sets the last extractIntelligence call returned
  lastIndex,            \* the lastIndex of each of the six global patterns
  repeatedCall          \* the current call's text is the previous call's text

VARIABLES
  \* ---- the request handler (handleHoneypotApiRequest and what it calls)
  request,              \* the APIRequest being handled
  pcApi,                \* "idle" | "start" | "awaiting" | "responded"
  sentParts,            \* the parts of the last call to the external model
  geminiCalls,          \* calls to the external model made for this request
  geminiOutcome,        \* how the external model answered this request
  reply,                \* what generateHoneypotReply did for this request
  response,             \* what the promise of the handler settled to
  failureReplies        \* the replies returned so far when the model failed

VARIABLES
  \* ---- one summary (createFinalOutput)
  summaryArgs,          \* the objects passed to createFinalOutput, as they are
  calledWith,           \* the arguments as they were when the call was made
  pcSummary,            \* "ready" | "returned"
  summary               \* the FinalOutput createFinalOutput returned

classifierVars == <<message, pcTurn, currentScamDetected, returned, scamDetected>>
scorerVars == <<finalOutput, scenario, score>>
extractorVars == <<text, pcExtract, extracted, lastIndex, repeatedCall>>
apiVars == <<request, pcApi, sentParts, geminiCalls, geminiOutcome, reply,
             response, failureReplies>>

summarizerVars == <<summaryArgs, calledWith, pcSummary, summary>>

vars == <<classifierVars, scorerVars, extractorVars, apiVars, summarizerVars>>

-----------------------------------------------------------------------------
(* Strings                                                                   *)

UpperCase == <<"A","B","C","D","E","F","G","H","I","J","K","L","M",
               "N","O","P","Q","R","S","T","U","V","W","X","Y","Z">>
LowerCase == <<"a","b","c","d","e","f","g","h","i","j","k","l","m",
               "n","o","p","q","r","s","t","u","v","w","x","y","z">>

\* String.prototype.toLowerCase on one character
LowerChar(c) ==
  IF \E i \in 1..Len(UpperCase) : UpperCase[i] = c
  THEN LowerCase[CHOOSE i \in 1..Len(UpperCase) : UpperCase[i] = c]
  ELSE c

\* String.prototype.toLowerCase
toLowerCase(s) == [i \in 1..Len(s) |-> LowerChar(s[i])]

\* whether `needle` occurs in `s` at 0-based position p
OccursAt(s, needle, p) ==
  /\ p + Len(needle) <= Len(s)
  /\ \A j \in 1..Len(needle) : s[p + j] = needle[j]

\* String.prototype.includes: a scan of the start positions from the left
includes(s, needle) == \E p \in 0..Len(s) : OccursAt(s, needle, p)

RECURSIVE Concat(_)
\* the concatenation of a sequence of strings
Concat(ss) == IF ss = <<>> THEN <<>> ELSE Head(ss) \o Concat(Tail(ss))

-----------------------------------------------------------------------------
(* src/constants.ts                                                          *)

SCAM_KEYWORDS ==
  << <<"u","r","g","e","n","t">>,
     <<"b","l","o","c","k","e","d">>,
     <<"v","e","r","i","f","y">>,
     <<"o","t","p">>,
     <<"a","c","c","o","u","n","t"," ","c","o","m","p","r","o","m","i","s","e","d">>,
     <<"c","a","s","h","b","a","c","k">>,
     <<"w","o","n">>,
     <<"c","l","a","i","m">>,
     <<"l","i","n","k">>,
     <<"e","x","p","i","r","e","s">>,
     <<"c","o","n","g","r","a","t","u","l","a","t","i","o","n","s">>,
     <<"r","e","w","a","r","d">>,
     <<"o","f","f","e","r">>,
     <<"l","i","m","i","t","e","d"," ","t","i","m","e">>,
     <<"i","m","p","o","r","t","a","n","t"," ","s","e","c","u","r","i","t","y"," ","a","l","e","r","t">>,
     <<"s","u","s","p","i","c","i","o","u","s"," ","a","c","t","i","v","i","t","y">>,
     <<"u","p","d","a","t","e"," ","y","o","u","r"," ","i","n","f","o","r","m","a","t","i","o","n">>,
     <<"l","o","g","i","n"," ","n","o","w">>,
     <<"v","e","r","i","f","y"," ","y","o","u","r"," ","i","d","e","n","t","i","t","y">>,
     <<"c","l","i","c","k"," ","h","e","r","e">>,
     <<"d","o","w","n","l","o","a","d"," ","n","o","w">>,
     <<"p","a","y","m","e","n","t"," ","f","a","i","l","e","d">>,
     <<"t","r","a","n","s","a","c","t","i","o","n"," ","a","l","e","r","t">>,
     <<"p","r","i","z","e">>,
     <<"l","u","c","k","y"," ","d","r","a","w">>,
     <<"y","o","u","r"," ","p","a","c","k","a","g","e"," ","i","s"," ","d","e","l","a","y","e","d">> >>

-----------------------------------------------------------------------------
(* Keyword classifier: src/api.ts, detectScam                                *)

\* detectScam with the early return on the flag left out
detectScamNoLatch(msg, current) ==
  \E k \in 1..Len(SCAM_KEYWORDS) :
     includes(toLowerCase(msg), toLowerCase(SCAM_KEYWORDS[k]))

\* detectScam with the message matched as written, not lowercased
detectScamCaseSensitive(msg, current) ==
  IF current THEN TRUE
  ELSE \E k \in 1..Len(SCAM_KEYWORDS) :
          includes(msg, toLowerCase(SCAM_KEYWORDS[k]))

detectScam(msg, current) ==
  IF current
  THEN TRUE
  ELSE LET lowerCaseMessage == toLowerCase(msg)
       IN  \E k \in 1..Len(SCAM_KEYWORDS) :
              includes(lowerCaseMessage, toLowerCase(SCAM_KEYWORDS[k]))

-----------------------------------------------------------------------------
(* Regular expressions: the matcher of the JavaScript runtime                *)
(*                                                                           *)
(* The runtime matches by backtracking.  A step of a pattern maps the        *)
(* positions reached so far, listed in the order the backtracking tries      *)
(* them, to the positions reached after the step, in that order again; a     *)
(* greedy step lists its longest alternative first.  The first position of   *)
(* the last step's list is where the match the runtime finds ends.           *)

Digit == {"0","1","2","3","4","5","6","7","8","9"}
Upper == {UpperCase[i] : i \in 1..Len(UpperCase)}
Lower == {LowerCase[i] : i \in 1..Len(LowerCase)}
Alpha == Upper \cup Lower
AlphaNum == Alpha \cup Digit
\* \w
WordChar == AlphaNum \cup {"_"}
\* \s (the white space of the model's texts)
Space == {" ", "\t", "\n"}

\* whether the character at position p (0-based) is in class
CharIn(t, p, class) == p >= 0 /\ p < Len(t) /\ t[p + 1] \in class

\* \b at position p
IsBoundary(t, p) == CharIn(t, p - 1, WordChar) # CharIn(t, p, WordChar)

RECURSIVE Boundary(_, _)
\* \b
Boundary(t, ps) ==
  IF ps = <<>> THEN <<>>
  ELSE (IF IsBoundary(t, Head(ps)) THEN <<Head(ps)>> ELSE <<>>)
         \o Boundary(t, Tail(ps))

RECURSIVE OneChar(_, _, _)
\* [class]
OneChar(t, ps, class) ==
  IF ps = <<>> THEN <<>>
  ELSE (IF CharIn(t, Head(ps), class) THEN <<Head(ps) + 1>> ELSE <<>>)
         \o OneChar(t, Tail(ps), class)

RECURSIVE OptChar(_, _, _)
\* [class]? : greedy, the character is taken first
OptChar(t, ps, class) ==
  IF ps = <<>> THEN <<>>
  ELSE (IF CharIn(t, Head(ps), class) THEN <<Head(ps) + 1, Head(ps)>>
                                      ELSE <<Head(ps)>>)
         \o OptChar(t, Tail(ps), class)

RECURSIVE Run(_, _, _, _)
\* how many characters of class follow position p, counted up to max
Run(t, p, class, max) ==
  IF max = 0 \/ ~CharIn(t, p, class) THEN 0
  ELSE 1 + Run(t, p + 1, class, max - 1)

RECURSIVE Repeat(_, _, _, _, _)
\* [class]{min,max} : greedy, the longest run first
Repeat(t, ps, class, min, max) ==
  IF ps = <<>> THEN <<>>
  ELSE LET p == Head(ps)
           k == Run(t, p, class, max)
       IN  (IF k < min THEN <<>>
            ELSE [i \in 1..(k - min + 1) |-> p + k - (i - 1)])
             \o Repeat(t, Tail(ps), class, min, max)

\* a repetition with no upper limit: + is AtLeast(1), * is AtLeast(0)
AtLeast(t, ps, class, min) == Repeat(t, ps, class, min, Len(t))

\* whether lit, compared without regard to case, is at position p
OccursAtIgnoreCase(t, lit, p) ==
  /\ p + Len(lit) <= Len(t)
  /\ \A j \in 1..Len(lit) : LowerChar(t[p + j]) = LowerChar(lit[j])

RECURSIVE Literal(_, _, _, _)
\* a literal string; ignoreCase is the i flag
Literal(t, ps, lit, ignoreCase) ==
  IF ps = <<>> THEN <<>>
  ELSE (IF (IF ignoreCase THEN OccursAtIgnoreCase(t, lit, Head(ps))
                          ELSE OccursAt(t, lit, Head(ps)))
        THEN <<Head(ps) + Len(lit)>> ELSE <<>>)
         \o Literal(t, Tail(ps), lit, ignoreCase)

RECURSIVE OptLiteral(_, _, _)
\* (?:lit)? : greedy, the literal is taken first
OptLiteral(t, ps, lit) ==
  IF ps = <<>> THEN <<>>
  ELSE (IF OccursAt(t, lit, Head(ps)) THEN <<Head(ps) + Len(lit), Head(ps)>>
                                      ELSE <<Head(ps)>>)
         \o OptLiteral(t, Tail(ps), lit)

-----------------------------------------------------------------------------
(* Entity extractor: src/api.ts, the six patterns and extractIntelligence    *)

\* [-.\s]
PhoneSep == {"-", "."} \cup Space

\* /\b(?:\+?\d{1,3}[-.\s]?)?(\(?\d{3}\)?[-.\s]?\d{3}[-.\s]?\d{4})\b/g
\* the ends of the matches that start at s, in backtracking order
PHONE_NUMBER_REGEX(t, s) ==
  LET start  == Boundary(t, <<s>>)
      prefix == OptChar(t, Repeat(t, OptChar(t, start, {"+"}), Digit, 1, 3),
                        PhoneSep)
      \* the optional group is greedy: with the prefix first, then without
      p0 == prefix \o start
      p1 == OptChar(t, p0, {"("})
      p2 == Repeat(t, p1, Digit, 3, 3)
      p3 == OptChar(t, p2, {")"})
      p4 == OptChar(t, p3, PhoneSep)
      p5 == Repeat(t, p4, Digit, 3, 3)
      p6 == OptChar(t, p5, PhoneSep)
      p7 == Repeat(t, p6, Digit, 4, 4)
  IN  Boundary(t, p7)

\* /\b(?:\d{9,18}|[A-Z]{4}\d{7}[A-Z]\d{6})\b/g
BANK_ACCOUNT_REGEX(t, s) ==
  LET start == Boundary(t, <<s>>)
      digits == Repeat(t, start, Digit, 9, 18)
      ifsc == Repeat(t, OneChar(t, Repeat(t, Repeat(t, start, Upper, 4, 4),
                                          Digit, 7, 7), Upper), Digit, 6, 6)
  IN  Boundary(t, digits \o ifsc)

\* [a-zA-Z0-9.\-_]
UpiChar == AlphaNum \cup {".", "-", "_"}

\* /\b[a-zA-Z0-9.\-_]+@[a-zA-Z0-9.\-_]+\b/g
UPI_ID_REGEX(t, s) ==
  LET start == Boundary(t, <<s>>)
      local == AtLeast(t, start, UpiChar, 1)
      at == OneChar(t, local, {"@"})
  IN  Boundary(t, AtLeast(t, at, UpiChar, 1))

\* [-a-zA-Z0-9@:%._\+~#=]
LinkHostChar == AlphaNum \cup {"-", "@", ":", "%", ".", "_", "+", "~", "#", "="}
\* [a-zA-Z0-9()]
LinkTldChar == AlphaNum \cup {"(", ")"}
\* [-a-zA-Z0-9()@:%_\+.~#?&\/\/=]
LinkPathChar ==
  AlphaNum \cup {"-", "(", ")", "@", ":", "%", "_", "+", ".", "~", "#", "?",
                 "&", "/", "="}

\* /(https?:\/\/(?:www\.)?[-a-zA-Z0-9@:%._\+~#=]{1,256}\.[a-zA-Z0-9()]{1,6}\b(?:[-a-zA-Z0-9()@:%_\+.~#?&\/\/=]*))/g
PHISHING_LINK_REGEX(t, s) ==
  LET scheme == Literal(t, OptChar(t, Literal(t, <<s>>, <<"h","t","t","p">>, FALSE),
                                   {"s"}),
                        <<":","/","/">>, FALSE)
      www == OptLiteral(t, scheme, <<"w","w","w",".">>)
      host == Repeat(t, www, LinkHostChar, 1, 256)
      tld == Repeat(t, OneChar(t, host, {"."}), LinkTldChar, 1, 6)
  IN  AtLeast(t, Boundary(t, tld), LinkPathChar, 0)

\* [A-Za-z0-9._%+-]
EmailLocalChar == AlphaNum \cup {".", "_", "%", "+", "-"}
\* [A-Za-z0-9.-]
EmailDomainChar == AlphaNum \cup {".", "-"}

\* /\b[A-Za-z0-9._%+-]+@[A-Za-z0-9.-]+\.[A-Za-z]{2,}\b/g
EMAIL_ADDRESS_REGEX(t, s) ==
  LET start == Boundary(t, <<s>>)
      local == AtLeast(t, start, EmailLocalChar, 1)
      domain == AtLeast(t, OneChar(t, local, {"@"}), EmailDomainChar, 1)
      tld == AtLeast(t, OneChar(t, domain, {"."}), Alpha, 2)
  IN  Boundary(t, tld)

\* /\b(?:ID|Ref|Code|No)\s*[:#]\s*(...)/gi up to the capture group: where the
\* group may start, in backtracking order
GenericIdCaptureStarts(t, s) ==
  LET start == Boundary(t, <<s>>)
      label == Literal(t, start, <<"I","D">>, TRUE)
                 \o Literal(t, start, <<"R","e","f">>, TRUE)
                 \o Literal(t, start, <<"C","o","d","e">>, TRUE)
                 \o Literal(t, start, <<"N","o">>, TRUE)
      mark == OneChar(t, AtLeast(t, label, Space, 0), {":", "#"})
  IN  AtLeast(t, mark, Space, 0)

\* ([a-zA-Z0-9]{4,15})\b from the capture start c
GenericIdTail(t, c) == Boundary(t, Repeat(t, <<c>>, AlphaNum, 4, 15))

\* /\b(?:ID|Ref|Code|No)\s*[:#]\s*([a-zA-Z0-9]{4,15})\b/gi
GENERIC_ID_REGEX(t, s) ==
  LET cs == GenericIdCaptureStarts(t, s)
      ok == SelectSeq(cs, LAMBDA c : GenericIdTail(t, c) # <<>>)
  IN  IF ok = <<>> THEN <<>> ELSE GenericIdTail(t, Head(ok))

\* where capture group 1 of GENERIC_ID_REGEX starts in the match found at s
GenericIdCapture(t, s) ==
  Head(SelectSeq(GenericIdCaptureStarts(t, s),
                 LAMBDA c : GenericIdTail(t, c) # <<>>))

RegexNames == {"PHONE", "BANK", "UPI", "LINK", "EMAIL", "ID"}

\* the ends of the matches of pattern re that start at s, in backtracking order
MatchEnds(re, t, s) ==
  CASE re = "PHONE" -> PHONE_NUMBER_REGEX(t, s)
    [] re = "BANK"  -> BANK_ACCOUNT_REGEX(t, s)
    [] re = "UPI"   -> UPI_ID_REGEX(t, s)
    [] re = "LINK"  -> PHISHING_LINK_REGEX(t, s)
    [] re = "EMAIL" -> EMAIL_ADDRESS_REGEX(t, s)
    [] re = "ID"    -> GENERIC_ID_REGEX(t, s)

NoMatch == [found |-> FALSE, index |-> 0, end |-> 0]

\* the match that starts at s, if the pattern has one there: it ends where
\* the backtracking first succeeds
MatchAt(s, ends) ==
  IF ends # <<>> THEN [found |-> TRUE, index |-> s, end |-> Head(ends)]
  ELSE NoMatch

RECURSIVE Search(_, _, _)
\* the leftmost match of re at or after position s
Search(re, t, s) ==
  IF s > Len(t) THEN NoMatch
  ELSE IF MatchEnds(re, t, s) # <<>> THEN MatchAt(s, MatchEnds(re, t, s))
  ELSE Search(re, t, s + 1)

\* what exec leaves behind for the match m it found or did not find: a match
\* moves lastIndex to its end, a failure sets lastIndex to 0
ExecResult(m) == [match |-> m, lastIndex |-> IF m.found THEN m.end ELSE 0]

\* RegExp.prototype.exec of a global pattern: the search starts at lastIndex
Exec(re, t, from) == ExecResult(Search(re, t, from))

\* the matches of a loop whose first exec found m
Prepend(m, rest) ==
  [matches |-> <<m>> \o rest.matches, lastIndex |-> rest.lastIndex]

\* the loop without its repetition: one exec, whose match is kept
ExecOnce(re, t, from) ==
  LET r == Exec(re, t, from)
  IN  [matches |-> IF r.match.found THEN <<r.match>> ELSE <<>>,
       lastIndex |-> r.lastIndex]

RECURSIVE ExecLoop(_, _, _)
\* while ((match = RE.exec(message)) !== null) { ... }: the matches in order,
\* and the lastIndex the pattern is left with
ExecLoop(re, t, from) ==
  IF ~Exec(re, t, from).match.found
  THEN [matches |-> <<>>, lastIndex |-> Exec(re, t, from).lastIndex]
  ELSE Prepend(Exec(re, t, from).match,
               ExecLoop(re, t, Exec(re, t, from).lastIndex))

RECURSIVE Remove(_, _)
\* s.replace(/[class]/g, '')
Remove(s, class) ==
  IF s = <<>> THEN <<>>
  ELSE (IF Head(s) \in class THEN <<>> ELSE <<Head(s)>>) \o Remove(Tail(s), class)

\* match[0]
Matched(t, m) == SubSeq(t, m.index + 1, m.end)

\* match[0].replace(/[-\s()]/g, '')
NormalizePhone(s) == Remove(s, {"-", "(", ")"} \cup Space)

\* the value stored for a match of pattern re
Stored(re, t, m) ==
  CASE re = "PHONE" -> NormalizePhone(Matched(t, m))
    [] re = "ID"    -> SubSeq(t, GenericIdCapture(t, m.index) + 1, m.end)
    [] OTHER        -> Matched(t, m)

\* the values stored for the matches r of one scanning loop
StoredValues(re, t, r) ==
  [values |-> {Stored(re, t, r.matches[i]) : i \in 1..Len(r.matches)},
   lastIndex |-> r.lastIndex]

\* the set one scanning loop of extractIntelligence fills
Scan(re, t, from) == StoredValues(re, t, ExecLoop(re, t, from))

\* the object extractIntelligence returns from the six filled sets
Arrays(scan) ==
  [extracted |->
     [phoneNumbers   |-> scan["PHONE"].values,
      bankAccounts   |-> scan["BANK"].values,
      upiIds         |-> scan["UPI"].values,
      phishingLinks  |-> scan["LINK"].values,
      emailAddresses |-> scan["EMAIL"].values,
      otherIds       |-> scan["ID"].values],
   lastIndex |-> [re \in RegexNames |-> scan[re].lastIndex]]

\* extractIntelligence(message), run with the six patterns' lastIndex as they
\* are (li): the six sets, and the lastIndex each pattern is left with
extractIntelligence(t, li) ==
  Arrays([re \in RegexNames |-> Scan(re, t, li[re])])

----------
(* Reply orchestrator and request handler: src/services/geminiService.ts,    *)
(* callGemini; src/api.ts, generateHoneypotReply, handleHoneypotApiRequest   *)

\* enum Sender
SCAMMER == "scammer"
HONEYPOT == "honeypot"
USER == "user"
Senders == {SCAMMER, HONEYPOT, USER}

\* the value of a Sender as a template literal prints it
SenderText(sender) ==
  CASE sender = SCAMMER  -> <<"s","c","a","m","m","e","r">>
    [] sender = HONEYPOT -> <<"h","o","n","e","y","p","o","t">>
    [] sender = USER     -> <<"u","s","e","r">>

\* callGemini, line 59: the reply for an empty response text
EMPTY_RESPONSE_REPLY ==
    <<"I","'","m"," ","s","o","r","r","y",","," ","I"," ","s","e","e","m",
      " ","t","o"," ","b","e"," ","h","a","v","i","n","g"," ","t","r","o",
      "u","b","l","e"," ","u","n","d","e","r","s","t","a","n","d","i","n",
      "g","."," ","C","a","n"," ","y","o","u"," ","p","l","e","a","s","e",
      " ","r","e","p","h","r","a","s","e","?">>

\* callGemini, line 65: the reply when the call to the model throws
CALL_ERROR_REPLY ==
    <<"I"," ","a","p","o","l","o","g","i","z","e",","," ","I"," ","e","n",
      "c","o","u","n","t","e","r","e","d"," ","a","n"," ","i","s","s","u",
      "e","."," ","C","o","u","l","d"," ","y","o","u"," ","p","l","e","a",
      "s","e"," ","r","e","p","e","a","t"," ","t","h","a","t","?">>

\* generateHoneypotReply, line 227: the reply when callGemini throws
FALLBACK_REPLY ==
    <<"I"," ","a","m"," ","e","x","p","e","r","i","e","n","c","i","n","g",
      " ","s","o","m","e"," ","t","e","c","h","n","i","c","a","l"," ","d",
      "i","f","f","i","c","u","l","t","i","e","s","."," ","C","o","u","l",
      "d"," ","y","o","u"," ","p","l","e","a","s","e"," ","p","r","o","v",
      "i","d","e"," ","t","h","a","t"," ","i","n","f","o","r","m","a","t",
      "i","o","n"," ","a","g","a","i","n","?">>

\* handleHoneypotApiRequest, line 49: the detail for an error without message
DEFAULT_ERROR_DETAIL ==
    <<"A","n"," ","u","n","e","x","p","e","c","t","e","d"," ","e","r","r",
      "o","r"," ","o","c","c","u","r","r","e","d"," ","w","h","i","l","e",
      " ","p","r","o","c","e","s","s","i","n","g"," ","t","h","e"," ","r",
      "e","q","u","e","s","t",".">>

\* handleHoneypotApiRequest, line 50
GENERIC_ERROR_MESSAGE ==
    <<"A","n"," ","u","n","e","x","p","e","c","t","e","d"," ","e","r","r",
      "o","r"," ","o","c","c","u","r","r","e","d","."," ","P","l","e","a",
      "s","e"," ","t","r","y"," ","a","g","a","i","n"," ","l","a","t","e",
      "r",".">>

\* the message of the TypeError the runtime throws on reading a property of
\* undefined
TYPE_ERROR_MESSAGE ==
    <<"C","a","n","n","o","t"," ","r","e","a","d"," ","p","r","o","p","e",
      "r","t","i","e","s"," ","o","f"," ","u","n","d","e","f","i","n","e",
      "d">>

\* what a call did: it returned a value, or it threw an error with a message
Returned(v) == [threw |-> FALSE, value |-> v]
Thrown(msg) == [threw |-> TRUE, value |-> msg]

\* conversationParts (lines 35-40): a part per turn of the history, then the
\* latest message as a scammer's
ConversationParts(history, latestScammerMessage) ==
  [i \in 1..Len(history) |->
      SenderText(history[i].sender) \o <<":", " ">> \o history[i].text]
    \o << SenderText(SCAMMER) \o <<":", " ">> \o latestScammerMessage >>

\* callGemini from the answer of ai.models.generateContent on (lines 56-66):
\* the response text, or one of two replies of its own; it never throws
callGemini(outcome) ==
  CASE outcome.kind = "error" -> Returned(CALL_ERROR_REPLY)
    [] outcome.kind = "text" /\ outcome.text = <<>> -> Returned(EMPTY_RESPONSE_REPLY)
    [] OTHER -> Returned(outcome.text)

\* conversationHistory.filter(msg => msg.sender !== Sender.USER)
HistoryForGemini(conversationHistory) ==
  SelectSeq(conversationHistory, LAMBDA msg : msg.sender # USER)

\* generateHoneypotReply from the result of its callGemini call on
\* (lines 218-228)
generateHoneypotReply(called) ==
  IF called.threw THEN Returned(FALLBACK_REPLY) ELSE Returned(called.value)

\* the own properties of an APIResponse, and their values
SuccessResponse(replyText) ==
  [status |-> "success", fields |-> {"status", "reply", "message", "text"},
   reply |-> replyText, message |-> replyText, text |-> replyText,
   error |-> <<>>]

\* error.message || "An unexpected error occurred while processing the request."
ErrorResponse(errorMessage) ==
  [status |-> "error", fields |-> {"status", "error", "message"},
   reply |-> <<>>, message |-> GENERIC_ERROR_MESSAGE, text |-> <<>>,
   error |-> IF errorMessage # <<>> THEN errorMessage ELSE DEFAULT_ERROR_DETAIL]

\* the handler without its try/catch: the returned promise rejects
Rejected(errorMessage) ==
  [status |-> "rejected", fields |-> {},
   reply |-> <<>>, message |-> <<>>, text |-> <<>>, error |-> errorMessage]

\* lines 14-31 of handleHoneypotApiRequest: the history with the current
\* message appended; reading .map of a missing conversationHistory or .sender
\* of a missing message throws
FullConversationHistory(req) ==
  IF "conversationHistory" \notin req.fields \/ "message" \notin req.fields
  THEN Thrown(TYPE_ERROR_MESSAGE)
  ELSE Returned(req.conversationHistory
                  \o << [sender |-> req.message.sender, text |-> req.message.text] >>)

\* the catch block of handleHoneypotApiRequest (lines 45-52)
HandlerCatch(errorMessage) == ErrorResponse(errorMessage)

-----------------------------------------------------------------------------
(* Scorer: src/api.ts, evaluateFinalOutput                                   *)

\* Points are counted in tenths, so that the 2.5 of the optional field is the
\* integer 25: Pt(20) is the 20 points of the source.
Pt(n) == 10 * n
\* 2.5 points
TwoAndAHalfPt == Pt(5) \div 2

\* the own properties a FinalOutput object can have
RequiredFieldNames ==
  {"sessionId", "scamDetected", "extractedIntelligence", "engagementMetrics",
   "totalMessagesExchanged"}
FieldNames == RequiredFieldNames \cup {"agentNotes"}

requiredFields ==
  <<"sessionId", "scamDetected", "extractedIntelligence", "engagementMetrics",
    "totalMessagesExchanged">>
optionalFields == <<"agentNotes">>

keyMapping ==
  [k \in {"bankAccount", "upiId", "phoneNumber", "phishingLink", "emailAddress"} |->
     CASE k = "bankAccount"  -> "bankAccounts"
       [] k = "upiId"        -> "upiIds"
       [] k = "phoneNumber"  -> "phoneNumbers"
       [] k = "phishingLink" -> "phishingLinks"
       [] k = "emailAddress" -> "emailAddresses"]

\* keyMapping[fakeKey] || fakeKey
OutputKey(fakeKey) ==
  IF fakeKey \in DOMAIN keyMapping THEN keyMapping[fakeKey] ELSE fakeKey

\* extracted[outputKey] || []
ExtractedValues(ex, outputKey) ==
  IF outputKey \in DOMAIN ex THEN ex[outputKey] ELSE <<>>

\* `includes` written as an equality: only an exact value counts
SomeEquals(values, fakeValue) ==
  \E i \in 1..Len(values) : values[i] = fakeValue

\* extractedValues.some(v => String(v).includes(fakeValue))
SomeIncludes(values, fakeValue) ==
  \E i \in 1..Len(values) : includes(values[i], fakeValue)

\* the award of one entry of Object.entries(fakeData)
EntryAward(ex, fakeKey, fakeValue) ==
  IF fakeValue # <<>>
        /\ SomeIncludes(ExtractedValues(ex, OutputKey(fakeKey)), fakeValue)
  THEN Pt(10)
  ELSE 0

RECURSIVE IntelligenceSum(_, _, _)
\* the loop over Object.entries(fakeData): score.intelligenceExtraction += 10
IntelligenceSum(ex, fakeData, keys) ==
  IF keys = {} THEN 0
  ELSE LET k == CHOOSE x \in keys : TRUE
       IN  EntryAward(ex, k, fakeData[k])
             + IntelligenceSum(ex, fakeData, keys \ {k})

Min(a, b) == IF a <= b THEN a ELSE b

\* Math.min(score.intelligenceExtraction, 40) left out
IntelligenceExtractionUncapped(fo, sc) ==
  IntelligenceSum(fo.extractedIntelligence, sc.fakeData, DOMAIN sc.fakeData)

\* 2. Intelligence Extraction (40 points)
IntelligenceExtraction(fo, sc) ==
  Min(IntelligenceSum(fo.extractedIntelligence, sc.fakeData, DOMAIN sc.fakeData),
      Pt(40))

\* `messages >= 5` written as `messages > 5`
EngagementQualityStrict(fo) ==
  LET duration == fo.engagementMetrics.engagementDurationSeconds
      messages == fo.engagementMetrics.totalMessagesExchanged
  IN  (IF duration > 0 THEN Pt(5) ELSE 0)
        + (IF duration > 60 THEN Pt(5) ELSE 0)
        + (IF messages > 0 THEN Pt(5) ELSE 0)
        + (IF messages > 5 THEN Pt(5) ELSE 0)

\* 3. Engagement Quality (20 points)
EngagementQuality(fo) ==
  LET duration == fo.engagementMetrics.engagementDurationSeconds
      messages == fo.engagementMetrics.totalMessagesExchanged
  IN  (IF duration > 0 THEN Pt(5) ELSE 0)
        + (IF duration > 60 THEN Pt(5) ELSE 0)
        + (IF messages > 0 THEN Pt(5) ELSE 0)
        + (IF messages >= 5 THEN Pt(5) ELSE 0)

RECURSIVE RequiredAward(_, _)
\* for (const field of requiredFields) if (field in finalOutput) += 5
RequiredAward(fo, fields) ==
  IF fields = <<>> THEN 0
  ELSE (IF Head(fields) \in fo.fields THEN Pt(5) ELSE 0)
         + RequiredAward(fo, Tail(fields))

RECURSIVE OptionalAward(_, _)
\* for (const field of optionalFields) if (field in finalOutput && finalOutput[field]) += 2.5
OptionalAward(fo, fields) ==
  IF fields = <<>> THEN 0
  ELSE (IF Head(fields) \in fo.fields /\ fo[Head(fields)] # <<>>
        THEN TwoAndAHalfPt ELSE 0)
         + OptionalAward(fo, Tail(fields))

\* Math.min(score.responseStructure, 20) left out
ResponseStructureUncapped(fo) ==
  RequiredAward(fo, requiredFields) + OptionalAward(fo, optionalFields)

\* 4. Response Structure (20 points)
ResponseStructure(fo) ==
  Min(RequiredAward(fo, requiredFields) + OptionalAward(fo, optionalFields), Pt(20))

\* 1. Scam Detection (20 points): an absent scamDetected reads as undefined
ScamDetection(fo) ==
  IF "scamDetected" \in fo.fields /\ fo.scamDetected THEN Pt(20) ELSE 0

\* extracted[outputKey] is read for every truthy planted value (line 321): with
\* finalOutput.extractedIntelligence undefined that read is a TypeError
ThrowsAtExtraction(fo, sc) ==
  /\ "extractedIntelligence" \notin fo.fields
  /\ \E k \in DOMAIN sc.fakeData : sc.fakeData[k] # <<>>

\* metrics.engagementDurationSeconds (line 333): with
\* finalOutput.engagementMetrics undefined that read is a TypeError
ThrowsAtMetrics(fo) == "engagementMetrics" \notin fo.fields

\* what a call did: it threw, or it returned its score
Threw == [status |-> "threw"]
NotEvaluated == [status |-> "pending"]

evaluateFinalOutput(fo, sc) ==
  IF ThrowsAtExtraction(fo, sc) \/ ThrowsAtMetrics(fo)
  THEN Threw
  ELSE LET sd == ScamDetection(fo)
           ie == IntelligenceExtraction(fo, sc)
           eq == EngagementQuality(fo)
           rs == ResponseStructure(fo)
       IN  [status |-> "returned",
            scamDetection |-> sd,
            intelligenceExtraction |-> ie,
            engagementQuality |-> eq,
            responseStructure |-> rs,
            total |-> sd + ie + eq + rs]

-----------------------------------------------------------------------------
(* The state machines                                                        *)

\* the pieces the message texts of the model are put together from
Fragments == { <<"o">>, <<"T","P">>, <<" ">>, <<"W","o","n">>, <<"x">> }

\* a message text has at most this many pieces
MaxFragments == 3

\* the message texts of the model
Messages ==
  { Concat(fs) : fs \in UNION { [1..n -> Fragments] : n \in 0..MaxFragments } }

\* a message of the session arrives
ReceiveMessage ==
  /\ pcTurn \in {"idle", "classified"}
  /\ \E m \in Messages : message' = m
  /\ pcTurn' = "received"
  /\ UNCHANGED <<currentScamDetected, returned, scamDetected>>
  /\ UNCHANGED <<scorerVars, extractorVars, apiVars,
               summarizerVars>>

\* the caller classifies the message with the session's flag and keeps the result
ClassifyMessage ==
  /\ pcTurn = "received"
  /\ currentScamDetected' = scamDetected
  /\ returned' = detectScam(message, scamDetected)
  /\ scamDetected' = detectScam(message, scamDetected)
  /\ pcTurn' = "classified"
  /\ UNCHANGED message
  /\ UNCHANGED <<scorerVars, extractorVars, apiVars,
               summarizerVars>>

Next ==
  \/ ReceiveMessage
  \/ ClassifyMessage

\* ---- the scorer's inputs

\* the value planted for each fakeData key of the model: the five keys of
\* keyMapping, a key that names an extraction category directly, and a key
\* that names none
Planted ==
  [k \in {"bankAccount", "upiId", "phoneNumber", "phishingLink", "emailAddress",
          "otherIds", "ifscCode"} |->
     CASE k = "bankAccount"  -> <<"1","2">>
       [] k = "upiId"        -> <<"a","@">>
       [] k = "phoneNumber"  -> <<"5","5">>
       [] k = "phishingLink" -> <<"h","t">>
       [] k = "emailAddress" -> <<"@","b">>
       [] k = "otherIds"     -> <<"A","B">>
       [] k = "ifscCode"     -> <<"I","F">>]

\* the keys whose planted value may also be the empty string
EmptyAllowed == {"bankAccount", "upiId"}

\* fakeData: a sparse mapping of keys to planted values
FakeDatas ==
  UNION { { f \in [ks -> {<<>>} \cup {Planted[k] : k \in ks}] :
              \A k \in ks : \/ f[k] = Planted[k]
                            \/ f[k] = <<>> /\ k \in EmptyAllowed }
          : ks \in SUBSET DOMAIN Planted }

Scenarios == { [fakeData |-> f] : f \in FakeDatas }

\* every category holds a value that contains the category's planted value
ExtractedFull ==
  [phoneNumbers   |-> << <<"4","1","5","5","5">> >>,
   bankAccounts   |-> << <<"9","1","2","3">> >>,
   upiIds         |-> << <<"x","a","@","u">> >>,
   phishingLinks  |-> << <<"h","t","t","p">> >>,
   emailAddresses |-> << <<"a","@","b",".","c">> >>,
   otherIds       |-> << <<"A","B","1","2">> >>]

\* some categories match, some hold only other values, one holds the value
\* planted for another category
ExtractedPartial ==
  [phoneNumbers   |-> << <<"5","x","5">>, <<"1","5","5","2">> >>,
   bankAccounts   |-> << <<"9","1","2","3">> >>,
   upiIds         |-> << <<"x","@","u">> >>,
   phishingLinks  |-> << >>,
   emailAddresses |-> << <<"h","t","@","c">> >>,
   otherIds       |-> << <<"A","1","B","2">> >>]

ExtractedEmpty ==
  [phoneNumbers |-> <<>>, bankAccounts |-> <<>>, upiIds |-> <<>>,
   phishingLinks |-> <<>>, emailAddresses |-> <<>>, otherIds |-> <<>>]

ExtractedOptions == {ExtractedFull, ExtractedPartial, ExtractedEmpty}

Durations == {0, 60, 61}
MessageCounts == {0, 4, 5}
Notes == { <<>>, <<"o","k">> }

\* A FinalOutput object: `fields` are its own properties.  The value kept for
\* a property that is not in `fields` is never read: evaluateFinalOutput tests
\* `fields` before every read, as the runtime tests the property.
MkFinalOutput(fields, sd, ei, dur, msgs, notes) ==
  [fields |-> fields,
   scamDetected |-> IF "scamDetected" \in fields THEN sd ELSE FALSE,
   extractedIntelligence |->
     IF "extractedIntelligence" \in fields THEN ei ELSE << >>,
   engagementMetrics |->
     IF "engagementMetrics" \in fields
     THEN [engagementDurationSeconds |-> dur, totalMessagesExchanged |-> msgs]
     ELSE << >>,
   agentNotes |-> IF "agentNotes" \in fields THEN notes ELSE << >>]

\* FinalOutputs as the type declares them: every field present, any content
TypedFinalOutputs ==
  { MkFinalOutput(FieldNames, sd, ei, dur, msgs, notes) :
      sd \in BOOLEAN, ei \in ExtractedOptions, dur \in Durations,
      msgs \in MessageCounts, notes \in Notes }

\* objects with any of the fields missing
PartialFinalOutputs ==
  { MkFinalOutput(fields, TRUE, ExtractedPartial, 61, 5, notes) :
      fields \in SUBSET FieldNames, notes \in Notes }

FinalOutputs == TypedFinalOutputs \cup PartialFinalOutputs

EvaluateFinalOutput ==
  /\ score = NotEvaluated
  /\ score' = evaluateFinalOutput(finalOutput, scenario)
  /\ UNCHANGED <<finalOutput, scenario>>
  /\ UNCHANGED <<classifierVars, extractorVars, apiVars,
               summarizerVars>>

NextScorer == EvaluateFinalOutput

\* ---- the extractor

\* what may stand in front of a phone number
PhonePrefixes ==
  { <<>>, <<"+","1"," ">>, <<"9","1","-">>, <<"c","a","l","l"," ">> }

\* the separators the pattern allows between the groups of digits, and none
PhoneSeparators == { <<>>, <<"-">>, <<".">>, <<" ">> }

\* a ten-digit number in every way of writing it
PhoneTexts ==
  { pre \o open \o <<"4","1","5">> \o close \o s1 \o <<"5","5","5">> \o s2
        \o <<"2","6","7","1">> :
      pre \in PhonePrefixes, open \in {<<>>, <<"(">>}, close \in {<<>>, <<")">>},
      s1 \in PhoneSeparators, s2 \in PhoneSeparators }

\* the pieces the other texts are put together from
TextParts ==
  { <<"4","1","5","-","5","5","5","-","2","6","7","1"," ">>,
    <<"(","4","1","5",")","\t","5","5","5",".","2","6","7","1"," ">>,
    <<"r","a","h","u","l",".","k","@","u","p","i">>,
    <<"h","t","t","p",":","/","/","b","i","t",".","l","y","/","a","1">>,
    <<"R","e","f",":"," ","A","B","1","2","C","D">>,
    <<"a",".","b","@","c",".","c","o">>,
    <<"1","2","3","4","5","6","7","8","9","0","1","2">>,
    <<" ">> }

\* a composed text has at most this many pieces
MaxParts == 2

ComposedTexts ==
  { Concat(ps) : ps \in UNION { [1..n -> TextParts] : n \in 0..MaxParts } }

\* the message texts of the model
Texts == PhoneTexts \cup ComposedTexts

\* the lastIndex of a pattern as the module creates it
ZeroIndex == [re \in RegexNames |-> 0]

NothingExtracted ==
  [phoneNumbers |-> {}, bankAccounts |-> {}, upiIds |-> {},
   phishingLinks |-> {}, emailAddresses |-> {}, otherIds |-> {}]

\* extractIntelligence is called with a message text: the call starts with
\* six new empty sets (lines 140-147)
CallExtractIntelligence ==
  /\ pcExtract \in {"idle", "extracted"}
  /\ \E t \in Texts :
        /\ text' = t
        /\ repeatedCall' = (pcExtract = "extracted" /\ t = text)
  /\ extracted' = NothingExtracted
  /\ pcExtract' = "called"
  /\ UNCHANGED lastIndex
  /\ UNCHANGED <<classifierVars, scorerVars, apiVars,
               summarizerVars>>

\* the six scanning loops and the return (lines 149-182): synchronous, so one
\* step; the loops run on the patterns as the earlier calls left them
ExtractIntelligence ==
  /\ pcExtract = "called"
  /\ \E r \in {extractIntelligence(text, lastIndex)} :
        /\ extracted' = r.extracted
        /\ lastIndex' = r.lastIndex
  /\ pcExtract' = "extracted"
  /\ UNCHANGED <<text, repeatedCall>>
  /\ UNCHANGED <<classifierVars, scorerVars, apiVars,
               summarizerVars>>

NextExtractor ==
  \/ CallExtractIntelligence
  \/ ExtractIntelligence

\* ---- the request handler

\* the texts of the current message
MessageTexts == { <<"h","i">>, <<"o","t","p">> }

\* the texts of the earlier turns
HistoryTexts == { <<"o","k">> }

\* a conversation history has at most this many earlier turns
MaxHistory == 2

Histories ==
  UNION { [1..n -> [sender : Senders, text : HistoryTexts]] : n \in 0..MaxHistory }

\* An APIRequest object: `fields` are its own properties.  The value kept for
\* a property that is not in `fields` is never read.
MkRequest(fields, msg, history) ==
  [fields |-> fields,
   message |-> IF "message" \in fields THEN msg
               ELSE [sender |-> SCAMMER, text |-> <<>>],
   conversationHistory |->
     IF "conversationHistory" \in fields THEN history ELSE <<>>]

Requests ==
  { MkRequest(fields, msg, history) :
      fields \in { {"sessionId", "metadata"} \cup fs :
                     fs \in SUBSET {"message", "conversationHistory"} },
      msg \in [sender : Senders, text : MessageTexts],
      history \in Histories }

\* how the external model can answer: a response with a text (an empty text
\* is a response without one), or a failure: a transport error, a timeout, an
\* exception
GeminiOutcomes ==
  { [kind |-> "text", text |-> <<"y","e","s","?">>],
    [kind |-> "text", text |-> <<>>],
    [kind |-> "error", text |-> <<"f","e","t","c","h">>] }

IsFailure(outcome) ==
  outcome.kind = "error" \/ (outcome.kind = "text" /\ outcome.text = <<>>)

NoRequest == MkRequest({}, [sender |-> SCAMMER, text |-> <<>>], <<>>)
NoOutcome == [kind |-> "none", text |-> <<>>]
NoReply == [threw |-> FALSE, value |-> <<>>]
NoResponse ==
  [status |-> "pending", fields |-> {}, reply |-> <<>>, message |-> <<>>,
   text |-> <<>>, error |-> <<>>]

\* handleHoneypotApiRequest is called: each call is handled on its own
ReceiveRequest ==
  /\ pcApi \in {"idle", "responded"}
  /\ request' \in Requests
  /\ pcApi' = "start"
  /\ sentParts' = <<>>
  /\ geminiCalls' = 0
  /\ geminiOutcome' = NoOutcome
  /\ reply' = NoReply
  /\ response' = NoResponse
  /\ UNCHANGED failureReplies
  /\ UNCHANGED <<classifierVars, scorerVars, extractorVars,
               summarizerVars>>

\* handleHoneypotApiRequest up to the await in callGemini: the full history
\* is built (lines 14-31), generateHoneypotReply filters it (line 197),
\* callGemini builds the parts and calls the model (lines 35-54); an exception
\* on the way is caught by the handler (lines 45-52)
HandleRequest ==
  /\ pcApi = "start"
  /\ LET full == FullConversationHistory(request)
     IN  IF full.threw
         THEN /\ response' = HandlerCatch(full.value)
              /\ pcApi' = "responded"
              /\ UNCHANGED <<sentParts, geminiCalls>>
         ELSE /\ sentParts' = ConversationParts(HistoryForGemini(full.value),
                                                request.message.text)
              /\ geminiCalls' = geminiCalls + 1
              /\ pcApi' = "awaiting"
              /\ UNCHANGED response
  /\ UNCHANGED <<request, geminiOutcome, reply, failureReplies>>
  /\ UNCHANGED <<classifierVars, scorerVars, extractorVars,
               summarizerVars>>

\* the model call settles, with a retry: after a failed call or an empty text
\* the model is called a second time before anything is returned
GeminiSettlesWithRetry ==
  /\ pcApi = "awaiting"
  /\ \E outcome \in GeminiOutcomes :
        IF IsFailure(outcome) /\ geminiCalls < 2
        THEN /\ geminiCalls' = geminiCalls + 1
             /\ pcApi' = "awaiting"
             /\ UNCHANGED <<geminiOutcome, reply, response, failureReplies>>
        ELSE LET r == generateHoneypotReply(callGemini(outcome))
             IN  /\ geminiOutcome' = outcome
                 /\ reply' = r
                 /\ response' = IF r.threw THEN HandlerCatch(r.value)
                                           ELSE SuccessResponse(r.value)
                 /\ failureReplies' = IF IsFailure(outcome) /\ ~r.threw
                                      THEN failureReplies \cup {r.value}
                                      ELSE failureReplies
                 /\ geminiCalls' = geminiCalls
                 /\ pcApi' = "responded"
  /\ UNCHANGED <<request, sentParts>>
  /\ UNCHANGED <<classifierVars, scorerVars, extractorVars,
               summarizerVars>>

\* the model call settles: callGemini returns (lines 56-66),
\* generateHoneypotReply returns (lines 224-228) and the handler answers
\* (lines 39-52)
GeminiSettles ==
  /\ pcApi = "awaiting"
  /\ \E outcome \in GeminiOutcomes :
        LET r == generateHoneypotReply(callGemini(outcome))
        IN  /\ geminiOutcome' = outcome
            /\ reply' = r
            /\ response' = IF r.threw THEN HandlerCatch(r.value)
                                      ELSE SuccessResponse(r.value)
            /\ failureReplies' = IF IsFailure(outcome) /\ ~r.threw
                                 THEN failureReplies \cup {r.value}
                                 ELSE failureReplies
  /\ pcApi' = "responded"
  /\ UNCHANGED <<request, sentParts, geminiCalls>>
  /\ UNCHANGED <<classifierVars, scorerVars, extractorVars,
               summarizerVars>>

NextApi ==
  \/ ReceiveRequest
  \/ HandleRequest
  \/ GeminiSettles

\* ---- the summarizer: src/api.ts, createFinalOutput

\* A Set<string> is kept as the list of its values in the order they were
\* added, each value once: the order in which the set is iterated.

\* Set.prototype.has
has(set, v) == \E i \in 1..Len(set) : set[i] = v

\* Set.prototype.add: a value the set holds is not added again
add(set, v) == IF has(set, v) THEN set ELSE Append(set, v)

RECURSIVE AddAll(_, _)
\* the set after values were added to it one by one (lines 140-178)
AddAll(set, values) ==
  IF values = <<>> THEN set ELSE AddAll(add(set, Head(values)), Tail(values))

\* Array.from with every value of the set put in the array twice
ArrayFromRepeated(set) == set \o set

\* Array.from(set): the values of the set in the order of its iteration
ArrayFrom(set) == [i \in 1..Len(set) |-> set[i]]

\* createFinalOutput: a holds the arguments under their parameter names (the
\* scenario argument is never read)
createFinalOutput(a) ==
  LET totalMessagesExchanged == Len(a.conversationHistory)
  IN  [sessionId |-> a.sessionId,
       scamDetected |-> a.scamDetected,
       totalMessagesExchanged |-> totalMessagesExchanged,
       extractedIntelligence |->
         [phoneNumbers   |-> ArrayFrom(a.finalExtractedIntelligence.phoneNumbers),
          bankAccounts   |-> ArrayFrom(a.finalExtractedIntelligence.bankAccounts),
          upiIds         |-> ArrayFrom(a.finalExtractedIntelligence.upiIds),
          phishingLinks  |-> ArrayFrom(a.finalExtractedIntelligence.phishingLinks),
          emailAddresses |-> ArrayFrom(a.finalExtractedIntelligence.emailAddresses),
          otherIds       |-> ArrayFrom(a.finalExtractedIntelligence.otherIds)],
       engagementMetrics |->
         [totalMessagesExchanged |-> totalMessagesExchanged,
          engagementDurationSeconds |-> a.engagementDurationSeconds],
       agentNotes |-> a.agentNotes]

\* the phone numbers a session finds
PhoneValues == { <<"4","1","5","5","5","5","2","6","7","1">>,
                 <<"4","1","5",".","5","5","5",".","2","6","7","1">> }

\* a set is filled by at most this many add calls
MaxAdds == 2

\* the sets of phone numbers: what add calls, repeated values among them,
\* leave behind
PhoneSets ==
  { AddAll(<<>>, values) :
      values \in UNION { [1..n -> PhoneValues] : n \in 0..MaxAdds } }

\* an ExtractedIntelligence: the other five sets are empty or hold one value
ExtractedIntelligences ==
  { [phoneNumbers   |-> phones,
     bankAccounts   |-> IF "bankAccounts" \in filled
                        THEN << <<"1","2","3","4","5","6","7","8","9">> >> ELSE <<>>,
     upiIds         |-> IF "upiIds" \in filled
                        THEN << <<"a","@","u","p","i">> >> ELSE <<>>,
     phishingLinks  |-> IF "phishingLinks" \in filled
                        THEN << <<"h","t","t","p",":","/","/","b",".","l","y">> >>
                        ELSE <<>>,
     emailAddresses |-> IF "emailAddresses" \in filled
                        THEN << <<"a","@","b",".","c","o">> >> ELSE <<>>,
     otherIds       |-> IF "otherIds" \in filled
                        THEN << <<"A","B","1","2">> >> ELSE <<>>] :
      phones \in PhoneSets,
      filled \in SUBSET {"bankAccounts", "upiIds", "phishingLinks",
                         "emailAddresses", "otherIds"} }

\* the arguments of a createFinalOutput call
Arguments ==
  [sessionId : {"session-1"},
   conversationHistory : Histories,
   scamDetected : BOOLEAN,
   finalExtractedIntelligence : ExtractedIntelligences,
   engagementDurationSeconds : {0, 61},
   agentNotes : {"", "asked for the account"}]

NoArguments ==
  [sessionId |-> "", conversationHistory |-> <<>>, scamDetected |-> FALSE,
   finalExtractedIntelligence |->
     [phoneNumbers |-> <<>>, bankAccounts |-> <<>>, upiIds |-> <<>>,
      phishingLinks |-> <<>>, emailAddresses |-> <<>>, otherIds |-> <<>>],
   engagementDurationSeconds |-> 0, agentNotes |-> ""]

NoSummary == [status |-> "pending"]

\* createFinalOutput is called and returns (lines 250-269): it reads its
\* arguments and writes none of them
CreateFinalOutput ==
  /\ pcSummary = "ready"
  /\ calledWith' = summaryArgs
  /\ summary' = [status |-> "returned", value |-> createFinalOutput(summaryArgs)]
  /\ pcSummary' = "returned"
  /\ UNCHANGED summaryArgs
  /\ UNCHANGED <<classifierVars, scorerVars, extractorVars, apiVars>>

NextSummarizer == CreateFinalOutput

\* ---- the initial states: each specification runs one component, the
\* others stand still

\* a session before its first message
InitClassifier ==
  /\ message = <<>>
  /\ pcTurn = "idle"
  /\ currentScamDetected = FALSE
  /\ returned = FALSE
  /\ scamDetected = FALSE
  \* the other components are not in use
  /\ finalOutput = "none"
  /\ scenario = "none"
  /\ score = [status |-> "unused"]
  /\ text = <<>>
  /\ pcExtract = "unused"
  /\ extracted = NothingExtracted
  /\ lastIndex = ZeroIndex
  /\ repeatedCall = FALSE
  /\ request = NoRequest
  /\ pcApi = "unused"
  /\ sentParts = <<>>
  /\ geminiCalls = 0
  /\ geminiOutcome = NoOutcome
  /\ reply = NoReply
  /\ response = NoResponse
  /\ failureReplies = {}
  /\ summaryArgs = NoArguments
  /\ calledWith = NoArguments
  /\ pcSummary = "unused"
  /\ summary = NoSummary

\* a final output and the scenario it is scored against
InitScorer ==
  /\ finalOutput \in FinalOutputs
  /\ scenario \in Scenarios
  /\ score = NotEvaluated
  \* the other components are not in use
  /\ message = <<>>
  /\ pcTurn = "unused"
  /\ currentScamDetected = FALSE
  /\ returned = FALSE
  /\ scamDetected = FALSE
  /\ text = <<>>
  /\ pcExtract = "unused"
  /\ extracted = NothingExtracted
  /\ lastIndex = ZeroIndex
  /\ repeatedCall = FALSE
  /\ request = NoRequest
  /\ pcApi = "unused"
  /\ sentParts = <<>>
  /\ geminiCalls = 0
  /\ geminiOutcome = NoOutcome
  /\ reply = NoReply
  /\ response = NoResponse
  /\ failureReplies = {}
  /\ summaryArgs = NoArguments
  /\ calledWith = NoArguments
  /\ pcSummary = "unused"
  /\ summary = NoSummary

\* the module as loaded: the six patterns with lastIndex 0
InitExtractor ==
  /\ text = <<>>
  /\ pcExtract = "idle"
  /\ extracted = NothingExtracted
  /\ lastIndex = ZeroIndex
  /\ repeatedCall = FALSE
  \* the other components are not in use
  /\ message = <<>>
  /\ pcTurn = "unused"
  /\ currentScamDetected = FALSE
  /\ returned = FALSE
  /\ scamDetected = FALSE
  /\ finalOutput = "none"
  /\ scenario = "none"
  /\ score = [status |-> "unused"]
  /\ request = NoRequest
  /\ pcApi = "unused"
  /\ sentParts = <<>>
  /\ geminiCalls = 0
  /\ geminiOutcome = NoOutcome
  /\ reply = NoReply
  /\ response = NoResponse
  /\ failureReplies = {}
  /\ summaryArgs = NoArguments
  /\ calledWith = NoArguments
  /\ pcSummary = "unused"
  /\ summary = NoSummary

\* the handler before its first request
InitApi ==
  /\ request = NoRequest
  /\ pcApi = "idle"
  /\ sentParts = <<>>
  /\ geminiCalls = 0
  /\ geminiOutcome = NoOutcome
  /\ reply = NoReply
  /\ response = NoResponse
  /\ failureReplies = {}
  \* the other components are not in use
  /\ message = <<>>
  /\ pcTurn = "unused"
  /\ currentScamDetected = FALSE
  /\ returned = FALSE
  /\ scamDetected = FALSE
  /\ finalOutput = "none"
  /\ scenario = "none"
  /\ score = [status |-> "unused"]
  /\ text = <<>>
  /\ pcExtract = "unused"
  /\ extracted = NothingExtracted
  /\ lastIndex = ZeroIndex
  /\ repeatedCall = FALSE
  /\ summaryArgs = NoArguments
  /\ calledWith = NoArguments
  /\ pcSummary = "unused"
  /\ summary = NoSummary

\* the arguments of a createFinalOutput call about to be made
InitSummarizer ==
  /\ summaryArgs \in Arguments
  /\ calledWith = NoArguments
  /\ pcSummary = "ready"
  /\ summary = NoSummary
  \* the other components are not in use
  /\ message = <<>>
  /\ pcTurn = "unused"
  /\ currentScamDetected = FALSE
  /\ returned = FALSE
  /\ scamDetected = FALSE
  /\ finalOutput = "none"
  /\ scenario = "none"
  /\ score = [status |-> "unused"]
  /\ text = <<>>
  /\ pcExtract = "unused"
  /\ extracted = NothingExtracted
  /\ lastIndex = ZeroIndex
  /\ repeatedCall = FALSE
  /\ request = NoRequest
  /\ pcApi = "unused"
  /\ sentParts = <<>>
  /\ geminiCalls = 0
  /\ geminiOutcome = NoOutcome
  /\ reply = NoReply
  /\ response = NoResponse
  /\ failureReplies = {}

\* a classifier session
Spec == InitClassifier /\ [][Next]_vars

\* one evaluation of a final output
SpecScorer == InitScorer /\ [][NextScorer]_vars

\* a sequence of extractions
SpecExtractor == InitExtractor /\ [][NextExtractor]_vars

\* a sequence of requests to the handler
SpecApi == InitApi /\ [][NextApi]_vars

\* one summary of a session
SpecSummarizer == InitSummarizer /\ [][NextSummarizer]_vars

-----------------------------------------------------------------------------
(* Claims                                                                    *)

\* the message holds keyword SCAM_KEYWORDS[k] once lowercased: some stretch of
\* the lowercased message is the keyword
HoldsKeyword(msg, k) ==
  LET low == toLowerCase(msg)
  IN  \E i \in 1..(Len(low) + 1) : \E j \in 0..Len(low) :
         SubSeq(low, i, j) = SCAM_KEYWORDS[k]

Whitespace == {" ", "\t", "\n"}

\* C1: once detectScam has returned true in a session, every later call of the
\* session returns true, whatever the message is: the flag never goes back
C1_ScamLatch == [][scamDetected => scamDetected']_vars

\* C1 witness: a call with the flag already set and an empty message returned true
C1_Witness ==
  /\ pcTurn = "classified"
  /\ currentScamDetected
  /\ message = <<>>
  /\ returned

\* C2: with the flag false, detectScam returns true exactly when the lowercased
\* message holds one of SCAM_KEYWORDS; an empty or whitespace-only message
\* gives false
C2_KeywordIff ==
  (pcTurn = "classified" /\ ~currentScamDetected) =>
     /\ returned <=> \E k \in 1..Len(SCAM_KEYWORDS) : HoldsKeyword(message, k)
     /\ (\A i \in 1..Len(message) : message[i] \in Whitespace) => ~returned

\* C2 witness: a mixed-case message was classified as a scam from a clear flag
C2_Witness ==
  /\ pcTurn = "classified"
  /\ ~currentScamDetected
  /\ returned
  /\ message = <<"o", "T", "P">>

\* C2 witness of the other direction is part of C2_KeywordIff's states: a
\* whitespace-only message classified from a clear flag
C2_WhitespaceSeen ==
  /\ pcTurn = "classified"
  /\ ~currentScamDetected
  /\ message = <<" ", " ">>
  /\ ~returned

\* ---- the scorer

\* `text` has `part` as a stretch of consecutive characters
Contains(str, part) ==
  \E i \in 1..(Len(str) + 1) : \E j \in 0..Len(str) : SubSeq(str, i, j) = part

\* the extraction category a fakeData key is scored against, if any
CategoryOf(key) ==
  CASE key = "bankAccount"  -> "bankAccounts"
    [] key = "upiId"        -> "upiIds"
    [] key = "phoneNumber"  -> "phoneNumbers"
    [] key = "phishingLink" -> "phishingLinks"
    [] key = "emailAddress" -> "emailAddresses"
    [] OTHER                -> key

\* the planted values of the scenario that the output's extraction recovered
MatchedKeys ==
  { k \in DOMAIN scenario.fakeData :
      /\ scenario.fakeData[k] # <<>>
      /\ CategoryOf(k) \in DOMAIN finalOutput.extractedIntelligence
      /\ \E i \in 1..Len(finalOutput.extractedIntelligence[CategoryOf(k)]) :
            Contains(finalOutput.extractedIntelligence[CategoryOf(k)][i],
                     scenario.fakeData[k]) }

\* the FinalOutput has the five required fields, as its type declares
HasRequiredFields == RequiredFieldNames \subseteq finalOutput.fields

\* C3: for every FinalOutput and Scenario the call returns, with
\* intelligenceExtraction in [0,40], responseStructure in [0,20],
\* engagementQuality in [0,20], scamDetection 0 or 20 and total in [0,100];
\* the ranges hold of every score the function returns
C3_CapLaw ==
  /\ (score.status = "threw") => ~HasRequiredFields
  /\ (score.status = "returned") =>
       /\ score.intelligenceExtraction \in 0..Pt(40)
       /\ score.responseStructure \in 0..Pt(20)
       /\ score.engagementQuality \in 0..Pt(20)
       /\ score.scamDetection \in {0, Pt(20)}
       /\ score.total \in 0..Pt(100)

\* C3 witness: more than four planted values matched and every dimension at
\* its cap
C3_Witness ==
  /\ score.status = "returned"
  /\ Cardinality(MatchedKeys) > 4
  /\ score.intelligenceExtraction = Pt(40)
  /\ score.total = Pt(100)

\* C5: the intelligence score is 10 points for each non-empty planted value
\* that some extracted value of its category contains, nothing for the
\* others, clamped to 40
C5_IntelligenceScore ==
  (score.status = "returned") =>
     score.intelligenceExtraction = Min(Pt(10) * Cardinality(MatchedKeys), Pt(40))

\* C5 witness: seven planted values, of which two are contained in a value of
\* their category, one is contained only in a value of another category and
\* one has no category: 20 points
C5_Witness ==
  /\ score.status = "returned"
  /\ finalOutput.extractedIntelligence = ExtractedPartial
  /\ scenario.fakeData = Planted
  /\ MatchedKeys = {"bankAccount", "phoneNumber"}
  /\ score.intelligenceExtraction = Pt(20)

\* the number of the five required fields the FinalOutput has
RequiredPresent == Cardinality(RequiredFieldNames \cap finalOutput.fields)

NotesBonus ==
  IF "agentNotes" \in finalOutput.fields /\ finalOutput.agentNotes # <<>>
  THEN TwoAndAHalfPt ELSE 0

C6_BelowCapSeen ==
  /\ score.status = "returned"
  /\ RequiredPresent = 2
  /\ score.responseStructure = Pt(10) + TwoAndAHalfPt

\* C7: the engagement score is the sum of four independent 5-point awards:
\* duration > 0, duration > 60, messages > 0, messages >= 5
C7_EngagementScore ==
  (score.status = "returned") =>
     LET d == finalOutput.engagementMetrics.engagementDurationSeconds
         m == finalOutput.engagementMetrics.totalMessagesExchanged
         awards == { c \in {"d>0", "d>60", "m>0", "m>=5"} :
                       \/ c = "d>0"  /\ d >= 1
                       \/ c = "d>60" /\ d >= 61
                       \/ c = "m>0"  /\ m >= 1
                       \/ c = "m>=5" /\ m >= 5 }
     IN  score.engagementQuality = Pt(5) * Cardinality(awards)

\* C7 witness: duration exactly 60 and exactly 5 messages scored 15
C7_Witness ==
  /\ score.status = "returned"
  /\ finalOutput.engagementMetrics.engagementDurationSeconds = 60
  /\ finalOutput.engagementMetrics.totalMessagesExchanged = 5
  /\ score.engagementQuality = Pt(15)

\* ---- the extractor

\* C8: extractIntelligence(T) returns the same six sets after any sequence of
\* earlier calls: what it returns is what it returns on patterns that were
\* never used, although the patterns keep a scan position between exec calls
C8_NoHiddenState ==
  /\ (pcExtract = "extracted") =>
        extracted = extractIntelligence(text, ZeroIndex).extracted
  /\ lastIndex = ZeroIndex

\* C8 witness: a text with two phone numbers was extracted twice in a row
C8_Witness ==
  /\ pcExtract = "extracted"
  /\ repeatedCall
  /\ Cardinality(extracted.phoneNumbers) = 2

SeparatorChars == {" ", ".", "-", "(", ")"}

\* C9: every value stored in phoneNumbers has all separators removed: it holds
\* no space, dot, hyphen or parenthesis
C9_PhoneNormalized ==
  \A v \in extracted.phoneNumbers : \A i \in 1..Len(v) : v[i] \notin SeparatorChars

\* what C9 says of the separators the code does remove
C9_OtherSeparatorsRemoved ==
  \A v \in extracted.phoneNumbers :
     \A i \in 1..Len(v) : v[i] \notin (SeparatorChars \ {"."})

\* ---- the reply orchestrator and the request handler

\* C4: on any failure of the external reply generator (an error, or an empty
\* reply text) generateHoneypotReply does not throw and returns one fixed
\* fallback string, the same for every kind of failure
C4_OneFallback ==
  /\ (pcApi = "responded" /\ IsFailure(geminiOutcome)) => ~reply.threw
  /\ Cardinality(failureReplies) <= 1

\* what C4 says of throwing, and the replies the code has for a failure
C4_FailureReplies ==
  /\ (pcApi = "responded" /\ IsFailure(geminiOutcome)) => ~reply.threw
  /\ failureReplies \subseteq {CALL_ERROR_REPLY, EMPTY_RESPONSE_REPLY}

\* C10: the handler never rejects; it resolves to status "success" with one
\* reply text under reply, message and text and no error field, or to status
\* "error" with an error detail and a generic message and no reply or text
\* field; a request without message or conversationHistory gives "error"
C10_ResponseEnvelope ==
  (pcApi = "responded") =>
     /\ \/ /\ response.status = "success"
           /\ response.fields = {"status", "reply", "message", "text"}
           /\ response.reply = response.message
           /\ response.reply = response.text
        \/ /\ response.status = "error"
           /\ response.fields = {"status", "error", "message"}
           /\ response.error # <<>>
           /\ response.message = GENERIC_ERROR_MESSAGE
     /\ ({"message", "conversationHistory"} \subseteq request.fields)
           <=> response.status = "success"

\* C10 witness: a request without conversationHistory was answered with the
\* error shape
C10_Witness ==
  /\ pcApi = "responded"
  /\ "conversationHistory" \notin request.fields
  /\ "message" \in request.fields
  /\ response.status = "error"
  /\ geminiCalls = 0

\* C10 witness of the other shape: a complete request answered with the
\* model's own text
C10_SuccessSeen ==
  /\ pcApi = "responded"
  /\ response.status = "success"
  /\ geminiOutcome.kind = "text"
  /\ response.reply = geminiOutcome.text
  /\ response.reply # <<>>

\* C11: in every execution of generateHoneypotReply, also one whose model call
\* fails or answers with an empty text, the external model is called at most
\* once
C11_NoRetries ==
  /\ geminiCalls <= 1
  /\ (pcApi = "responded" /\ IsFailure(geminiOutcome)) => geminiCalls = 1

\* C11 witness: an execution whose one model call failed has returned
C11_Witness ==
  /\ pcApi = "responded"
  /\ geminiOutcome.kind = "error"
  /\ geminiCalls = 1
  /\ reply = Returned(CALL_ERROR_REPLY)

\* C11 witness of the other failure: the one call answered with an empty text
C11_EmptyTextSeen ==
  /\ pcApi = "responded"
  /\ geminiOutcome.kind = "text"
  /\ geminiOutcome.text = <<>>
  /\ geminiCalls = 1

\* the part callGemini makes of a turn: its sender, ": ", its text
PartOf(sender, str) == SenderText(sender) \o <<":", " ">> \o str

\* the parts of the request's prior history, the internal caller's (user)
\* turns left out
PriorParts ==
  LET prior == SelectSeq(request.conversationHistory,
                         LAMBDA msg : msg.sender # USER)
  IN  [i \in 1..Len(prior) |-> PartOf(prior[i].sender, prior[i].text)]

\* how many entries of the list parts are the part p
RECURSIVE Occurrences(_, _)
Occurrences(parts, p) ==
  IF parts = <<>> THEN 0
  ELSE (IF Head(parts) = p THEN 1 ELSE 0) + Occurrences(Tail(parts), p)

\* the model was called for a request whose current message is the
\* counterparty's
SentForScammerMessage ==
  /\ pcApi \in {"awaiting", "responded"}
  /\ geminiCalls = 1
  /\ request.message.sender = SCAMMER

\* C13: for a request whose current message is from the counterparty, the
\* list of turns sent to the model is the prior history without the user
\* turns, followed by the current message, which is in the list exactly once
\* and as its last entry
C13_CurrentMessageOnce ==
  SentForScammerMessage =>
     /\ sentParts = PriorParts \o <<PartOf(SCAMMER, request.message.text)>>
     /\ Occurrences(sentParts, PartOf(SCAMMER, request.message.text)) = 1

\* what the code sends instead: the current message twice, once as the last
\* turn of the history the handler built and once more as the latest message
C13_CurrentMessageTwice ==
  SentForScammerMessage =>
     /\ sentParts = PriorParts \o <<PartOf(SCAMMER, request.message.text),
                                     PartOf(SCAMMER, request.message.text)>>
     /\ Occurrences(sentParts, PartOf(SCAMMER, request.message.text)) = 2

\* the sent list reached for a counterparty message with prior turns of
\* which one is a user turn
C13_Seen ==
  /\ SentForScammerMessage
  /\ Len(request.conversationHistory) = 2
  /\ Len(PriorParts) = 1

\* ---- the summarizer

\* the six categories of extracted intelligence
Categories ==
  {"phoneNumbers", "bankAccounts", "upiIds", "phishingLinks", "emailAddresses",
   "otherIds"}

\* the values a list holds
Members(list) == { list[i] : i \in 1..Len(list) }

\* no value is in the list twice
NoDuplicates(list) ==
  \A i \in 1..Len(list) : \A j \in 1..Len(list) : i # j => list[i] # list[j]

\* C12: createFinalOutput returns a FinalOutput whose two totalMessagesExchanged
\* are the length of the conversation passed in, whose sessionId, scamDetected,
\* duration and agentNotes are the arguments unchanged, and each of whose six
\* arrays holds exactly the members of the input set, none twice; the sets and
\* the conversation passed in are as they were before the call
C12_Summary ==
  (pcSummary = "returned") =>
     /\ summary.status = "returned"
     /\ DOMAIN summary.value =
          {"sessionId", "scamDetected", "totalMessagesExchanged",
           "extractedIntelligence", "engagementMetrics", "agentNotes"}
     /\ summary.value.totalMessagesExchanged = Len(calledWith.conversationHistory)
     /\ summary.value.engagementMetrics.totalMessagesExchanged
          = Len(calledWith.conversationHistory)
     /\ summary.value.sessionId = calledWith.sessionId
     /\ summary.value.scamDetected = calledWith.scamDetected
     /\ summary.value.engagementMetrics.engagementDurationSeconds
          = calledWith.engagementDurationSeconds
     /\ summary.value.agentNotes = calledWith.agentNotes
     /\ DOMAIN summary.value.extractedIntelligence = Categories
     /\ \A c \in Categories :
          /\ Members(summary.value.extractedIntelligence[c])
               = Members(calledWith.finalExtractedIntelligence[c])
          /\ NoDuplicates(summary.value.extractedIntelligence[c])
     /\ summaryArgs = calledWith

\* C12 witness: a summary of a conversation of two turns whose set of phone
\* numbers holds two values
C12_Witness ==
  /\ pcSummary = "returned"
  /\ Len(calledWith.conversationHistory) = 2
  /\ summary.value.totalMessagesExchanged = 2
  /\ Cardinality(Members(calledWith.finalExtractedIntelligence.phoneNumbers)) = 2
  /\ Len(summary.value.extractedIntelligence.phoneNumbers) = 2
  /\ Len(summary.value.extractedIntelligence.otherIds) = 1
  /\ summary.value.scamDetected
  /\ summary.value.agentNotes # ""

\* C12 witness of the empty case: no turn and six empty sets
C12_EmptySeen ==
  /\ pcSummary = "returned"
  /\ summary.value.totalMessagesExchanged = 0
  /\ \A c \in Categories : summary.value.extractedIntelligence[c] = <<>>
=============================================================================
